---- MODULE Spec2Model ----
(***************************************************************************)
(* Earth Hour app (Doekse/earthhour-homey): the date-recurrence helpers    *)
(* of lib/utils and the cron tick / reminder bookkeeping of app.js and     *)
(* lib/utils/notifications.js.                                             *)
(*                                                                         *)
(* Time is counted in units of 1/(2*HalfMinute) minute since               *)
(* 1970-01-01T00:00Z (the code counts milliseconds).  A luxon DateTime is  *)
(* the pair (instant, zone); its offset is the zone's offset at the        *)
(* instant.                                                                *)
(***************************************************************************)
EXTENDS Integers, Sequences, FiniteSets, TLC

\* ------------------------------------------------------------------ bounds
HalfMinute == 2
FirstYear == 2024
NumYears == 10
NowYears == 2
MaxTicks == 2
MaxDisturbances == 2
MaxSkips == 1
MaxAmount == 11

Minute == 2 * HalfMinute
Hour == 60 * Minute
Day == 24 * Hour

ArgYears == FirstYear .. (FirstYear + NumYears - 1)
ClockYears == FirstYear .. (FirstYear + NowYears - 1)
TableYears == (FirstYear - 1) .. (FirstYear + NumYears + 1)

\* ------------------------------------------------- proleptic Gregorian calendar
IsLeap(y) == (y % 4 = 0 /\ y % 100 # 0) \/ y % 400 = 0

DaysInMonth(y, m) ==
    IF m = 2 THEN (IF IsLeap(y) THEN 29 ELSE 28)
    ELSE IF m \in {4, 6, 9, 11} THEN 30 ELSE 31

\* Leap years among the years 1 .. y - 1.
LeapsBefore(y) == (y - 1) \div 4 - (y - 1) \div 100 + (y - 1) \div 400

\* Days since 1970-01-01 of January 1 of year y.
DaysBeforeYear(y) == 365 * (y - 1970) + LeapsBefore(y) - LeapsBefore(1970)

\* Days of year y before the first of month m.
DaysBeforeMonth(y, m) ==
    <<0, 31, 59, 90, 120, 151, 181, 212, 243, 273, 304, 334>>[m]
    + (IF m > 2 /\ IsLeap(y) THEN 1 ELSE 0)

\* Days since 1970-01-01 of a civil date.
DaysFromCivil(y, m, d) == DaysBeforeYear(y) + DaysBeforeMonth(y, m) + d - 1

\* Civil date of a day number (Gregorian 400-year cycle, years starting in
\* March): era, day of era, year of era, day of year, month from March.
CivilDate(yoe, era, doy, mp) ==
    [year |-> yoe + era * 400 + (IF mp < 10 THEN 0 ELSE 1),
     month |-> IF mp < 10 THEN mp + 3 ELSE mp - 9,
     day |-> doy - (153 * mp + 2) \div 5 + 1]

CivilInYear(yoe, era, doy) == CivilDate(yoe, era, doy, (5 * doy + 2) \div 153)

CivilInEra(doe, era, yoe) ==
    CivilInYear(yoe, era, doe - (365 * yoe + yoe \div 4 - yoe \div 100))

CivilOfEra(doe, era) ==
    CivilInEra(doe, era, (doe - doe \div 1460 + doe \div 36524 - doe \div 146096) \div 365)

CivilShifted(zz) == CivilOfEra(zz % 146097, zz \div 146097)

CivilFromDays(z) == CivilShifted(z + 719468)

TableDays == DaysFromCivil(FirstYear - 1, 1, 1) .. DaysFromCivil(FirstYear + NumYears + 1, 12, 31)

CivilTable == [dn \in TableDays |-> CivilFromDays(dn)]

\* ISO weekday of a day number: 1 = Monday ... 7 = Sunday (1970-01-01 was a Thursday).
WeekdayOfDays(z) == ((z + 3) % 7) + 1

\* Wall-clock fields of a local timestamp.
MakeFields(c, days, tod) ==
    [year |-> c.year, month |-> c.month, day |-> c.day,
     hour |-> tod \div Hour, minute |-> (tod % Hour) \div Minute,
     sub |-> tod % Minute, weekday |-> WeekdayOfDays(days)]

FieldsOnDay(days, tod) == MakeFields(CivilTable[days], days, tod)

Fields(localTS) == FieldsOnDay(localTS \div Day, localTS % Day)

\* Local timestamp of wall-clock fields (luxon objToLocalTS).
ObjToLocalTS(y, m, d, h, mi, su) ==
    DaysFromCivil(y, m, d) * Day + h * Hour + mi * Minute + su

\* --------------------------------------------------------------- time zones
Zones == {"Europe/Amsterdam", "America/New_York", "Asia/Beirut", "Australia/Sydney"}

\* Standard offset from UTC, in units.
StdOffset(z) ==
    CASE z = "Europe/Amsterdam" -> 1 * Hour
      [] z = "America/New_York" -> (0 - 5) * Hour
      [] z = "Asia/Beirut" -> 2 * Hour
      [] z = "Australia/Sydney" -> 10 * Hour

\* The first Sunday from a day on, and the last Sunday up to a day.
SundayFrom(first) == CHOOSE x \in first .. (first + 6) : WeekdayOfDays(x) = 7

SundayUpTo(last) == CHOOSE x \in (last - 6) .. last : WeekdayOfDays(x) = 7

\* The n-th Sunday of a month (n = 0: the last one), as a day number.
NthSunday(y, m, n) ==
    IF n = 0
    THEN SundayUpTo(DaysFromCivil(y, m, DaysInMonth(y, m)))
    ELSE SundayFrom(DaysFromCivil(y, m, 1)) + 7 * (n - 1)

\* The two offset transitions of year y, as instants: the zone is one hour
\* ahead of its standard offset from `on` (inclusive) to `off` (exclusive).
Transitions(z, y) ==
    CASE z = "Europe/Amsterdam" ->
            \* EU: last Sunday of March / October, 01:00 UTC
            [on |-> NthSunday(y, 3, 0) * Day + 1 * Hour,
             off |-> NthSunday(y, 10, 0) * Day + 1 * Hour]
      [] z = "America/New_York" ->
            \* US: second Sunday of March 02:00 EST, first Sunday of November 02:00 EDT
            [on |-> NthSunday(y, 3, 2) * Day + 7 * Hour,
             off |-> NthSunday(y, 11, 1) * Day + 6 * Hour]
      [] z = "Asia/Beirut" ->
            \* Lebanon: last Sunday of March 00:00 EET, last Sunday of October 00:00 EEST
            [on |-> NthSunday(y, 3, 0) * Day - 2 * Hour,
             off |-> NthSunday(y, 10, 0) * Day - 3 * Hour]
      [] z = "Australia/Sydney" ->
            \* AU: first Sunday of October 02:00 AEST, first Sunday of April 03:00 AEDT
            [on |-> NthSunday(y, 10, 1) * Day - 8 * Hour,
             off |-> NthSunday(y, 4, 1) * Day - 8 * Hour]

TransitionTable == [z \in Zones, y \in TableYears |-> Transitions(z, y)]

\* How far the zone is ahead of its standard offset at an instant.
AheadBy(tr, ts) ==
    IF tr.on < tr.off
    THEN (IF tr.on <= ts /\ ts < tr.off THEN Hour ELSE 0)
    ELSE (IF ts < tr.off \/ tr.on <= ts THEN Hour ELSE 0)

\* The zone's offset from UTC at an instant (luxon zone.offset(ts)).
Offset(z, ts) ==
    StdOffset(z) + AheadBy(TransitionTable[z, CivilTable[ts \div Day].year], ts)

Min(a, b) == IF a < b THEN a ELSE b

\* luxon fixOffset: the instant of a local timestamp, starting from the
\* provisional offset o and correcting it across an offset transition
\* (the second guess is utcGuess - (o2 - o) = localTS - o2).
FixOffsetThird(localTS, o2, o3) ==
    IF o2 = o3 THEN localTS - o2 ELSE localTS - Min(o2, o3)

FixOffsetSecond(localTS, o, z, o2) ==
    IF o2 = o THEN localTS - o
    ELSE FixOffsetThird(localTS, o2, Offset(z, localTS - o2))

FixOffset(localTS, o, z) == FixOffsetSecond(localTS, o, z, Offset(z, localTS - o))

\* Wall-clock fields of an instant in a zone (fromJSDate(d).setZone(z)).
ToLocal(ts, z) == Fields(ts + Offset(z, ts))

\* DateTime.now().setZone(z).year
YearInZone(ts, z) == ToLocal(ts, z).year

\* ---------------------------------------------------- luxon DateTime arithmetic
\* dt.minus({ days: n }): calendar subtraction on the wall-clock fields,
\* from the DateTime's own offset o.
MinusDaysAt(ts, z, n, o) == FixOffset((ts + o) - n * Day, o, z)

MinusDays(ts, z, n) == MinusDaysAt(ts, z, n, Offset(z, ts))

MonthNotClamped(f, o, z, y, m) ==
    FixOffset(ObjToLocalTS(y, m, f.day, f.hour, f.minute, f.sub), o, z)

\* dt.minus({ months: 1 }): previous month, day clamped to the month's length.
MonthClamped(f, o, z, y, m) ==
    FixOffset(ObjToLocalTS(y, m, Min(f.day, DaysInMonth(y, m)), f.hour, f.minute, f.sub),
              o, z)

MinusOneMonthOf(f, o, z) ==
    IF f.month = 1
    THEN MonthClamped(f, o, z, f.year - 1, 12)
    ELSE MonthClamped(f, o, z, f.year, f.month - 1)

MinusOneMonthAt(ts, z, o) == MinusOneMonthOf(Fields(ts + o), o, z)

MinusOneMonth(ts, z) == MinusOneMonthAt(ts, z, Offset(z, ts))

\* dt.set({ hour, minute, second: 0, millisecond: 0 })
SetTimeOf(f, z, h, mi, o) ==
    FixOffset(ObjToLocalTS(f.year, f.month, f.day, h, mi, 0), o, z)

SetTimeAt(ts, z, h, mi, o) == SetTimeOf(Fields(ts + o), z, h, mi, o)

SetTime(ts, z, h, mi) == SetTimeAt(ts, z, h, mi, Offset(z, ts))

\* dt.plus({ hours: 1 }): an elapsed hour after the instant.
PlusOneHourAt(ts, z, o) == FixOffset(ts + o, o, z) + Hour

PlusOneHour(ts, z) == PlusOneHourAt(ts, z, Offset(z, ts))

MathRoundFloor(n, d) == n \div d

MathRoundHalfAway(n, d) ==
    IF n >= 0 THEN (2 * n + d) \div (2 * d) ELSE 0 - ((2 * (0 - n) + d) \div (2 * d))

\* Math.round(n / d) for d > 0: ties go towards plus infinity.
MathRound(n, d) == (2 * n + d) \div (2 * d)

\* ------------------------------------------------------------ earthHourDate.js
\* `now` is the clock at the call: DateTime.fromObject takes its provisional
\* offset from it.
DaysToSubtractNoSpecialCase(weekday) == weekday + 1

DaysToSubtract(weekday) ==
    IF weekday = 6 THEN 0 ELSE IF weekday = 7 THEN 1 ELSE weekday + 1

\* From March 31, 00:00: back to the last Saturday, then 20:30.
LastSaturdayEvening(date, z) ==
    SetTime(MinusDays(date, z, DaysToSubtract(ToLocal(date, z).weekday)), z, 20, 30)

GetEarthHourDate(year, z, now) ==
    LastSaturdayEvening(FixOffset(ObjToLocalTS(year, 3, 31, 0, 0, 0), Offset(z, now), z), z)

AddHourToStartSetsClock(startDate, z) == SetTime(startDate, z, 21, 0)

AddHourToStart(startDate, z) == PlusOneHour(startDate, z)

GetEarthHourEnd(year, z, now) == AddHourToStart(GetEarthHourDate(year, z, now), z)

UpcomingPickAfterStart(z, now, currentYear, thisYearEarthHour) ==
    IF now > thisYearEarthHour
    THEN GetEarthHourDate(currentYear + 1, z, now)
    ELSE thisYearEarthHour

UpcomingPick(z, now, currentYear, thisYearEarthHour) ==
    IF now >= thisYearEarthHour
    THEN GetEarthHourDate(currentYear + 1, z, now)
    ELSE thisYearEarthHour

UpcomingIn(z, now, currentYear) ==
    UpcomingPick(z, now, currentYear, GetEarthHourDate(currentYear, z, now))

GetUpcomingEarthHourStart(z, now) == UpcomingIn(z, now, YearInZone(now, z))

GetUpcomingEarthHourEnd(z, now) == AddHourToStart(GetUpcomingEarthHourStart(z, now), z)

GetThisYearsEarthHourStart(z, now) == GetEarthHourDate(YearInZone(now, z), z, now)

GetThisYearsEarthHourEnd(z, now) == AddHourToStart(GetThisYearsEarthHourStart(z, now), z)

GetOneMonthBeforeEarthHour(year, z, now) == MinusOneMonth(GetEarthHourDate(year, z, now), z)

GetOneWeekBeforeEarthHour(year, z, now) == MinusDays(GetEarthHourDate(year, z, now), z, 7)

GetOneDayBeforeEarthHour(year, z, now) == MinusDays(GetEarthHourDate(year, z, now), z, 1)

GetThirtyMinutesBeforeEarthHour(year, z, now) == SetTime(GetEarthHourDate(year, z, now), z, 20, 0)

\* ---------------------------------------------------------- earthHourChecks.js
\* The three clock reads: now, the year of start, the year of end.
IsCurrentlyEarthHourEndInclusive(z, now, nowStart, nowEnd) ==
    /\ now >= GetThisYearsEarthHourStart(z, nowStart)
    /\ now <= GetThisYearsEarthHourEnd(z, nowEnd)

IsCurrentlyEarthHour(z, now, nowStart, nowEnd) ==
    /\ now >= GetThisYearsEarthHourStart(z, nowStart)
    /\ now < GetThisYearsEarthHourEnd(z, nowEnd)

\* a.hasSame(b, 'day'), both in zone z: b lies between a.startOf('day') and
\* a.endOf('day'), the last millisecond before the next day starts.
HasSameDay(a, b, z) ==
    /\ SetTime(a, z, 0, 0) <= b
    /\ b < SetTime(MinusDays(a, z, 0 - 1), z, 0, 0)

IsEarthHourDayFromStart(z, now, nowStart) ==
    /\ GetThisYearsEarthHourStart(z, nowStart) <= now
    /\ HasSameDay(GetThisYearsEarthHourStart(z, nowStart), now, z)

\* Two reads of the clock: now, and the year getThisYearsEarthHourStart uses.
IsEarthHourDay(z, now, nowStart) ==
    HasSameDay(GetThisYearsEarthHourStart(z, nowStart), now, z)

\* ------------------------------------------------------------ earthHourTime.js
MinutesUntil(targetDate, z, now) == MathRound(targetDate - now, Minute)

\* The start the countdown is measured against.
CountdownStartDateRollsAtStart(z, now) == GetUpcomingEarthHourStart(z, now)

CountdownStartDate(z, now) ==
    IF now < GetThisYearsEarthHourEnd(z, now)
    THEN GetThisYearsEarthHourStart(z, now)
    ELSE GetUpcomingEarthHourStart(z, now)

CountdownEndDateNeverRolls(z, now) == GetThisYearsEarthHourEnd(z, now)

CountdownEndDateRollsAtStart(z, now) == GetUpcomingEarthHourEnd(z, now)

\* The end the countdown is measured against.
CountdownEndDate(z, now) ==
    IF now < GetThisYearsEarthHourEnd(z, now)
    THEN GetThisYearsEarthHourEnd(z, now)
    ELSE GetUpcomingEarthHourEnd(z, now)

GetMinutesUntilEarthHourStart(z, now) == MinutesUntil(CountdownStartDate(z, now), z, now)

GetMinutesUntilEarthHourEnd(z, now) == MinutesUntil(CountdownEndDate(z, now), z, now)

\* ------------------------------------------------------------------- state
VARIABLES
    clock,                  \* the current instant (Date.now / Settings.now)
    timezone,               \* homey.clock.getTimezone()
    ret,                    \* the last call of a helper and what it returned
    cronTz,                 \* the timezone this._earthHourCron was created with
    running,                \* the cron jobs started and not stopped: [id, tz]
    lastStart,              \* this._lastTriggeredStartYear (0: null)
    lastEnd,                \* this._lastTriggeredEndYear (0: null)
    settings,               \* homey.settings: the sent-year marker of each reminder kind (0: unset)
    ticks,                  \* the onTick invocations in flight, each at its await
    startFired,             \* per year: earth_hour_starts triggers that fired
    endFired,               \* per year: earth_hour_ends triggers that fired
    notified,               \* per kind and year: notifications created
    failures,               \* calls that have thrown or rejected so far
    crashed,                \* an error has escaped a tick
    changes,                \* timezoneChange events so far
    skips                   \* stretches of idle minutes passed so far

fnVars == <<clock, timezone, ret>>

appVars == <<cronTz, running, lastStart, lastEnd, settings, ticks, startFired, endFired,
             notified, failures, crashed, changes, skips>>

vars == <<clock, timezone, ret, cronTz, running, lastStart, lastEnd, settings, ticks,
          startFired, endFired, notified, failures, crashed, changes, skips>>

NoRet == [fn |-> "none", year |-> 0, val |-> 0, val2 |-> 0, flag |-> FALSE, target |-> 0,
          amount |-> 0, unit |-> "none"]

\* ------------------------------------------------- the instants the clock visits
\* The last Saturday of March and its instants, found by search rather than
\* by the code's arithmetic.
RefLastSaturday(y) == CHOOSE d \in 25 .. 31 : WeekdayOfDays(DaysFromCivil(y, 3, d)) = 6

RefInstant(localTS, z) ==
    CHOOSE t \in {localTS - StdOffset(z), localTS - StdOffset(z) - Hour} :
        t + Offset(z, t) = localTS

RefStart(y, z) == RefInstant(ObjToLocalTS(y, 3, RefLastSaturday(y), 20, 30, 0), z)

NowSet(z) ==
    UNION {
        {RefStart(y, z) + d : d \in (0 - 2 * Minute) .. (2 * Minute)}
        \cup {RefStart(y, z) + Hour + d : d \in (0 - 2 * Minute) .. (2 * Minute)}
        \cup {RefStart(y, z) + k * Minute : k \in {0 - 1231, 0 - 1230, 0 - 630, 15, 45, 59, 75, 90, 209, 210}}
        \cup {DaysFromCivil(y, 1, 1) * Day + k * Day + 12 * Hour : k \in 0 .. 365}
        \cup {RefInstant(ObjToLocalTS(y, 12, 31, 23, 59, 0), z),
              RefInstant(ObjToLocalTS(y, 1, 1, 0, 0, 0), z)}
        : y \in ClockYears }

NowTable == [z \in Zones |-> NowSet(z)]

\* ---------------------------------------------------------- notifications.js
Kinds == 1 .. 4     \* one month, one week, one day, thirty minutes before

Abs(x) == IF x < 0 THEN 0 - x ELSE x

IsWithinOneMinute(nowMs, targetDate) == Abs(nowMs - targetDate) <= Minute

\* new Date().getFullYear(): the year of the process's own zone, which is UTC
\* on Homey.
GetFullYear(ts) == CivilTable[ts \div Day].year

ReminderDate(k, useYear, z, now) ==
    CASE k = 1 -> GetOneMonthBeforeEarthHour(useYear, z, now)
      [] k = 2 -> GetOneWeekBeforeEarthHour(useYear, z, now)
      [] k = 3 -> GetOneDayBeforeEarthHour(useYear, z, now)
      [] OTHER -> GetThirtyMinutesBeforeEarthHour(useYear, z, now)

UseYearOfRollsAtEnd(now, currentYear, z) ==
    IF now >= GetEarthHourEnd(currentYear, z, now) THEN currentYear + 1 ELSE currentYear

UseYearOf(now, currentYear, z) ==
    IF now >= GetEarthHourDate(currentYear, z, now) THEN currentYear + 1 ELSE currentYear

UseYear(now, z) == UseYearOf(now, GetFullYear(now), z)

\* The senders that get past both early returns: inside the window of their
\* target and the stored year is not useYear.
DueKinds(nowMs, useYear, z, st, from) ==
    {k \in from .. 4 : /\ IsWithinOneMinute(nowMs, ReminderDate(k, useYear, z, nowMs))
                       /\ st[k] # useYear}

FirstOf(S) == IF S = {} THEN 0 ELSE CHOOSE k \in S : \A j \in S : k <= j

\* ------------------------------------------- app.js: the flow condition cards
Amounts == 0 .. MaxAmount

Units == {"minutes", "hours"}

TargetMinutesIgnoresUnit(amount, unit) == amount

TargetMinutes(amount, unit) == IF unit = "hours" THEN amount * 60 ELSE amount

\* The run listener of earth_hour_starts_in.
StartsInResult(minutesUntil, targetMinutes) ==
    minutesUntil >= 0 /\ minutesUntil <= targetMinutes

EarthHourStartsIn(z, now, amount, unit) ==
    StartsInResult(GetMinutesUntilEarthHourStart(z, now), TargetMinutes(amount, unit))

\* ---------------------------------------------------------------------- app.js
StartDueFirstTimeOnly(now, currentYear, z, last) ==
    /\ Abs(now - GetEarthHourDate(currentYear, z, now)) <= Minute
    /\ last = 0

StartDue(now, currentYear, z, last) ==
    /\ Abs(now - GetEarthHourDate(currentYear, z, now)) <= Minute
    /\ last # currentYear

EndDue(now, currentYear, z, last) ==
    /\ Abs(now - GetEarthHourEnd(currentYear, z, now)) <= Minute
    /\ last # currentYear

EscapesOutsideTriggers(ph) == ph = "notifications"

\* Where an error thrown in phase ph of a tick ends up: the whole body of
\* onTick is inside one try, so nothing escapes it.
Escapes(ph) == FALSE

Slots == 1 .. MaxTicks

\* The app is followed through the calendar year FirstYear, in two of the zones.
AppYears == {FirstYear, FirstYear + 1}

AppZones == {"Europe/Amsterdam", "America/New_York"}

IdleTick == [pc |-> "idle", tz |-> "none", year |-> 0, now |-> 0, nowMs |-> 0,
             useYear |-> 0, k |-> 0, after |-> FALSE, job |-> 0]

\* A tick inside runScheduledNotifications: at the createNotification of the
\* first sender that is due, or finished when none is.
SenderTick(t, k) ==
    IF k = 0 THEN IdleTick ELSE [t EXCEPT !.pc = "create", !.k = k]

NotifyTickIn(z, nowMs, useYear, st) ==
    SenderTick([IdleTick EXCEPT !.tz = z, !.nowMs = nowMs, !.useYear = useYear],
               FirstOf(DueKinds(nowMs, useYear, z, st, 1)))

NotifyTick(z, nowMs, st) == NotifyTickIn(z, nowMs, UseYear(nowMs, z), st)

NextSenderTickFromSame(t, st) ==
    SenderTick(t, FirstOf(DueKinds(t.nowMs, t.useYear, t.tz, st, t.k)))

NextSenderTick(t, st) ==
    SenderTick(t, FirstOf(DueKinds(t.nowMs, t.useYear, t.tz, st, t.k + 1)))

\* The counters tell none, one and more than one apart.
Inc(n) == IF n >= 2 THEN 2 ELSE n + 1

\* A tick runs on the minute or just under half a minute late.
Latencies == {0, HalfMinute - 1}

NextMinute(c) == ((c \div Minute) + 1) * Minute

\* The instants a cron job of zone z acts on.
EventsOfYear(z, y, ref) ==
    {GetOneMonthBeforeEarthHour(y, z, ref), GetOneWeekBeforeEarthHour(y, z, ref),
     GetOneDayBeforeEarthHour(y, z, ref), GetThirtyMinutesBeforeEarthHour(y, z, ref),
     GetEarthHourDate(y, z, ref), GetEarthHourEnd(y, z, ref)}

EventTable ==
    [z \in AppZones |-> EventsOfYear(z, FirstYear, DaysFromCivil(FirstYear, 3, 1) * Day)]

FirstIdle(i) ==
    /\ ticks[i].pc = "idle"
    /\ \A j \in Slots : j < i => ticks[j].pc # "idle"

AllIdle == \A i \in Slots : ticks[i].pc = "idle"

\* The state onInit leaves: the cron job runs in the current timezone and
\* nothing has fired.
AppInit ==
    /\ cronTz = timezone
    /\ running = {[id |-> 0, tz |-> timezone]}
    /\ lastStart = 0
    /\ lastEnd = 0
    /\ settings = [k \in Kinds |-> 0]
    /\ ticks = [i \in Slots |-> IdleTick]
    /\ startFired = [y \in AppYears |-> 0]
    /\ endFired = [y \in AppYears |-> 0]
    /\ notified = [k \in Kinds |-> [y \in AppYears |-> 0]]
    /\ failures = 0
    /\ crashed = FALSE
    /\ changes = 0
    /\ skips = 0

\* ------------------------------------------------------- calls of the helpers
\* The clock stands still during one call (the tests pin Settings.now).
InitFn ==
    /\ timezone \in Zones
    /\ clock \in NowSet(timezone)
    /\ ret = NoRet
    /\ AppInit

CallGetEarthHourDate ==
    \E y \in ArgYears :
        /\ ret = NoRet
        /\ ret' = [NoRet EXCEPT !.fn = "getEarthHourDate", !.year = y,
                                !.val = GetEarthHourDate(y, timezone, clock)]
        /\ UNCHANGED <<clock, timezone, appVars>>

CallGetEarthHourEnd ==
    \E y \in ArgYears :
        /\ ret = NoRet
        /\ ret' = [NoRet EXCEPT !.fn = "getEarthHourEnd", !.year = y,
                                !.val = GetEarthHourEnd(y, timezone, clock)]
        /\ UNCHANGED <<clock, timezone, appVars>>

CallGetUpcomingEarthHourStart ==
    /\ ret = NoRet
    /\ ret' = [NoRet EXCEPT !.fn = "getUpcomingEarthHourStart",
                            !.val = GetUpcomingEarthHourStart(timezone, clock)]
    /\ UNCHANGED <<clock, timezone, appVars>>

CallGetUpcomingEarthHourEnd ==
    /\ ret = NoRet
    /\ ret' = [NoRet EXCEPT !.fn = "getUpcomingEarthHourEnd",
                            !.val = GetUpcomingEarthHourEnd(timezone, clock)]
    /\ UNCHANGED <<clock, timezone, appVars>>

CallIsCurrentlyEarthHour ==
    /\ ret = NoRet
    /\ ret' = [NoRet EXCEPT !.fn = "isCurrentlyEarthHour",
                            !.flag = IsCurrentlyEarthHour(timezone, clock, clock, clock)]
    /\ UNCHANGED <<clock, timezone, appVars>>

\* The clock moves on between the three reads of isCurrentlyEarthHour, by at
\* most a minute in all: ret.target keeps the first read.
CallIsCurrentlyEarthHourClockAdvances ==
    \E dStart \in 0 .. Minute, dEnd \in 1 .. Minute :
        /\ ret = NoRet
        /\ dStart <= dEnd
        /\ clock + dEnd \in NowTable[timezone]
        /\ clock' = clock + dEnd
        /\ ret' = [NoRet EXCEPT !.fn = "isCurrentlyEarthHour: clock advances",
                                !.target = clock,
                                !.flag = IsCurrentlyEarthHour(timezone, clock, clock + dStart,
                                                              clock + dEnd)]
        /\ UNCHANGED <<timezone, appVars>>

CallIsEarthHourDay ==
    /\ ret = NoRet
    /\ ret' = [NoRet EXCEPT !.fn = "isEarthHourDay",
                            !.flag = IsEarthHourDay(timezone, clock, clock)]
    /\ UNCHANGED <<clock, timezone, appVars>>

CallGetMinutesUntilEarthHourStart ==
    /\ ret = NoRet
    /\ ret' = [NoRet EXCEPT !.fn = "getMinutesUntilEarthHourStart",
                            !.target = CountdownStartDate(timezone, clock),
                            !.val = GetMinutesUntilEarthHourStart(timezone, clock)]
    /\ UNCHANGED <<clock, timezone, appVars>>

CallGetMinutesUntilEarthHourEnd ==
    /\ ret = NoRet
    /\ ret' = [NoRet EXCEPT !.fn = "getMinutesUntilEarthHourEnd",
                            !.target = CountdownEndDate(timezone, clock),
                            !.val = GetMinutesUntilEarthHourEnd(timezone, clock)]
    /\ UNCHANGED <<clock, timezone, appVars>>

\* Both countdowns at one reading of the clock.
CallBothCountdowns ==
    /\ ret = NoRet
    /\ ret' = [NoRet EXCEPT !.fn = "bothCountdowns",
                            !.val = GetMinutesUntilEarthHourStart(timezone, clock),
                            !.val2 = GetMinutesUntilEarthHourEnd(timezone, clock)]
    /\ UNCHANGED <<clock, timezone, appVars>>

CallGetOneMonthBeforeEarthHour ==
    \E y \in ArgYears :
        /\ ret = NoRet
        /\ ret' = [NoRet EXCEPT !.fn = "getOneMonthBeforeEarthHour", !.year = y,
                                !.val = GetOneMonthBeforeEarthHour(y, timezone, clock)]
        /\ UNCHANGED <<clock, timezone, appVars>>

CallGetOneWeekBeforeEarthHour ==
    \E y \in ArgYears :
        /\ ret = NoRet
        /\ ret' = [NoRet EXCEPT !.fn = "getOneWeekBeforeEarthHour", !.year = y,
                                !.val = GetOneWeekBeforeEarthHour(y, timezone, clock)]
        /\ UNCHANGED <<clock, timezone, appVars>>

CallGetOneDayBeforeEarthHour ==
    \E y \in ArgYears :
        /\ ret = NoRet
        /\ ret' = [NoRet EXCEPT !.fn = "getOneDayBeforeEarthHour", !.year = y,
                                !.val = GetOneDayBeforeEarthHour(y, timezone, clock)]
        /\ UNCHANGED <<clock, timezone, appVars>>

CallGetThirtyMinutesBeforeEarthHour ==
    \E y \in ArgYears :
        /\ ret = NoRet
        /\ ret' = [NoRet EXCEPT !.fn = "getThirtyMinutesBeforeEarthHour", !.year = y,
                                !.val = GetThirtyMinutesBeforeEarthHour(y, timezone, clock)]
        /\ UNCHANGED <<clock, timezone, appVars>>

CallEarthHourStartsIn ==
    \E amount \in Amounts, unit \in Units :
        /\ ret = NoRet
        /\ ret' = [NoRet EXCEPT !.fn = "earth_hour_starts_in", !.amount = amount, !.unit = unit,
                                !.val = GetMinutesUntilEarthHourStart(timezone, clock),
                                !.flag = EarthHourStartsIn(timezone, clock, amount, unit)]
        /\ UNCHANGED <<clock, timezone, appVars>>

\* The first lines of runScheduledNotifications: the year the reminders are
\* kept under.
CallReminderYear ==
    /\ ret = NoRet
    /\ ret' = [NoRet EXCEPT !.fn = "reminderYear", !.year = GetFullYear(clock),
                            !.val = UseYear(clock, timezone)]
    /\ UNCHANGED <<clock, timezone, appVars>>

\* The caller takes the result; the next call starts afresh.
Return ==
    /\ ret # NoRet
    /\ ret' = NoRet
    /\ UNCHANGED <<clock, timezone, appVars>>

NextFn ==
    \/ Return
    \/ CallGetEarthHourDate
    \/ CallGetEarthHourEnd
    \/ CallGetUpcomingEarthHourStart
    \/ CallGetUpcomingEarthHourEnd
    \/ CallIsCurrentlyEarthHour
    \/ CallIsEarthHourDay
    \/ CallIsCurrentlyEarthHourClockAdvances
    \/ CallGetMinutesUntilEarthHourStart
    \/ CallGetMinutesUntilEarthHourEnd
    \/ CallBothCountdowns
    \/ CallReminderYear
    \/ CallEarthHourStartsIn
    \/ CallGetOneMonthBeforeEarthHour
    \/ CallGetOneWeekBeforeEarthHour
    \/ CallGetOneDayBeforeEarthHour
    \/ CallGetThirtyMinutesBeforeEarthHour

SpecFn == InitFn /\ [][NextFn]_vars

\* ------------------------------------------------- the cron job and its ticks
\* An error thrown in phase ph of a tick.
Catch(ph) ==
    /\ failures' = failures + 1
    /\ crashed' = (crashed \/ Escapes(ph))

NoFault == UNCHANGED <<failures, crashed>>

\* Another call may still fail, another timezoneChange may still come.
MayDisturb == failures + changes < MaxDisturbances

\* A cron job of zone z fires at the next minute on which its tick can act.
TickGuard(z) ==
    /\ ~crashed
    /\ \E e \in EventTable[z] : Abs(NextMinute(clock) - e) <= Minute

\* Tick i reaches runScheduledNotifications in zone z at instant c.
EnterNotifications(i, z, c, throws) ==
    IF throws
    THEN /\ MayDisturb
         /\ ticks' = [ticks EXCEPT ![i] = IdleTick]
         /\ Catch("notifications")
    ELSE /\ ticks' = [ticks EXCEPT ![i] = NotifyTick(z, c, settings)]
         /\ NoFault

\* onTick whose first statements throw.
OnTickFails(z, now) ==
    /\ TickGuard(z)
    /\ MayDisturb
    /\ clock' = now
    /\ Catch("compute")
    /\ UNCHANGED <<timezone, ret, cronTz, running, lastStart, lastEnd, settings, ticks,
                   startFired, endFired, notified, changes, skips>>

\* onTick within a minute of the start: it awaits the start trigger.
OnTickStart(z, id, now) ==
    /\ TickGuard(z)
    /\ clock' = now
    /\ StartDue(now, GetFullYear(now), z, lastStart)
    /\ \E i \in Slots :
        /\ FirstIdle(i)
        /\ ticks' = [ticks EXCEPT ![i] = [IdleTick EXCEPT !.pc = "start", !.tz = z,
                                            !.year = GetFullYear(now), !.now = now,
                                            !.after = failures > 0, !.job = id]]
    /\ UNCHANGED <<timezone, ret, cronTz, running, lastStart, lastEnd, settings,
                   startFired, endFired, notified, failures, crashed, changes, skips>>

\* onTick within a minute of the end: it awaits the end trigger.
OnTickEnd(z, id, now) ==
    /\ TickGuard(z)
    /\ clock' = now
    /\ ~StartDue(now, GetFullYear(now), z, lastStart)
    /\ EndDue(now, GetFullYear(now), z, lastEnd)
    /\ \E i \in Slots :
        /\ FirstIdle(i)
        /\ ticks' = [ticks EXCEPT ![i] = [IdleTick EXCEPT !.pc = "end", !.tz = z,
                                            !.year = GetFullYear(now), !.now = now,
                                            !.after = failures > 0, !.job = id]]
    /\ UNCHANGED <<timezone, ret, cronTz, running, lastStart, lastEnd, settings,
                   startFired, endFired, notified, failures, crashed, changes, skips>>

\* onTick with no trigger to fire: straight to the reminders.
OnTickNotify(z, now) ==
    /\ TickGuard(z)
    /\ clock' = now
    /\ ~StartDue(now, GetFullYear(now), z, lastStart)
    /\ ~EndDue(now, GetFullYear(now), z, lastEnd)
    /\ \E i \in Slots, throws \in BOOLEAN :
        /\ FirstIdle(i)
        /\ EnterNotifications(i, z, now, throws)
    /\ UNCHANGED <<timezone, ret, cronTz, running, lastStart, lastEnd, settings,
                   startFired, endFired, notified, changes, skips>>

\* Every running job ticks, on the minute or late.
CronTickFails ==
    \E j \in running, lat \in Latencies : OnTickFails(j.tz, NextMinute(clock) + lat)

CronTickStart ==
    \E j \in running, lat \in Latencies : OnTickStart(j.tz, j.id, NextMinute(clock) + lat)

CronTickEnd ==
    \E j \in running, lat \in Latencies : OnTickEnd(j.tz, j.id, NextMinute(clock) + lat)

CronTickNotify ==
    \E j \in running, lat \in Latencies : OnTickNotify(j.tz, NextMinute(clock) + lat)

\* trigger() of earth_hour_starts resolves; the tick goes on.
StartTriggerResolves ==
    /\ ~crashed
    /\ \E i \in Slots :
        /\ ticks[i].pc = "start"
        /\ startFired' = [startFired EXCEPT ![ticks[i].year] = Inc(@)]
        /\ lastStart' = ticks[i].year
        /\ IF EndDue(ticks[i].now, ticks[i].year, ticks[i].tz, lastEnd)
           THEN /\ ticks' = [ticks EXCEPT ![i].pc = "end"]
                /\ NoFault
           ELSE \E throws \in BOOLEAN : EnterNotifications(i, ticks[i].tz, clock, throws)
    /\ UNCHANGED <<clock, timezone, ret, cronTz, running, lastEnd, settings, endFired,
                   notified, changes, skips>>

\* trigger() of earth_hour_starts rejects.
StartTriggerRejects ==
    /\ ~crashed
    /\ MayDisturb
    /\ \E i \in Slots :
        /\ ticks[i].pc = "start"
        /\ ticks' = [ticks EXCEPT ![i] = IdleTick]
    /\ Catch("trigger")
    /\ UNCHANGED <<clock, timezone, ret, cronTz, running, lastStart, lastEnd, settings,
                   startFired, endFired, notified, changes, skips>>

\* trigger() of earth_hour_ends resolves.
EndTriggerResolves ==
    /\ ~crashed
    /\ \E i \in Slots :
        /\ ticks[i].pc = "end"
        /\ endFired' = [endFired EXCEPT ![ticks[i].year] = Inc(@)]
        /\ lastEnd' = ticks[i].year
        /\ \E throws \in BOOLEAN : EnterNotifications(i, ticks[i].tz, clock, throws)
    /\ UNCHANGED <<clock, timezone, ret, cronTz, running, lastStart, settings, startFired,
                   notified, changes, skips>>

\* trigger() of earth_hour_ends rejects.
EndTriggerRejects ==
    /\ ~crashed
    /\ MayDisturb
    /\ \E i \in Slots :
        /\ ticks[i].pc = "end"
        /\ ticks' = [ticks EXCEPT ![i] = IdleTick]
    /\ Catch("trigger")
    /\ UNCHANGED <<clock, timezone, ret, cronTz, running, lastStart, lastEnd, settings,
                   startFired, endFired, notified, changes, skips>>

\* createNotification of the sender the tick is in resolves.
CreateNotificationResolves ==
    /\ ~crashed
    /\ \E i \in Slots :
        /\ ticks[i].pc = "create"
        /\ notified' = [notified EXCEPT ![ticks[i].k][ticks[i].useYear] = Inc(@)]
        /\ ticks' = [ticks EXCEPT ![i].pc = "set"]
    /\ UNCHANGED <<clock, timezone, ret, cronTz, running, lastStart, lastEnd, settings,
                   startFired, endFired, failures, crashed, changes, skips>>

\* createNotification rejects: the sender logs it and the next sender runs.
CreateNotificationRejects ==
    /\ ~crashed
    /\ MayDisturb
    /\ \E i \in Slots :
        /\ ticks[i].pc = "create"
        /\ ticks' = [ticks EXCEPT ![i] = NextSenderTick(ticks[i], settings)]
    /\ failures' = failures + 1
    /\ UNCHANGED <<clock, timezone, ret, cronTz, running, lastStart, lastEnd, settings,
                   startFired, endFired, notified, crashed, changes, skips>>

\* settings.set stores the year; the next sender runs.
SettingsSetResolves ==
    /\ ~crashed
    /\ \E i \in Slots :
        /\ ticks[i].pc = "set"
        /\ settings' = [settings EXCEPT ![ticks[i].k] = ticks[i].useYear]
        /\ ticks' = [ticks EXCEPT ![i] = NextSenderTick(ticks[i], settings')]
    /\ UNCHANGED <<clock, timezone, ret, cronTz, running, lastStart, lastEnd,
                   startFired, endFired, notified, failures, crashed, changes, skips>>

\* settings.set throws: the year is not stored.
SettingsSetRejects ==
    /\ ~crashed
    /\ MayDisturb
    /\ \E i \in Slots :
        /\ ticks[i].pc = "set"
        /\ ticks' = [ticks EXCEPT ![i] = NextSenderTick(ticks[i], settings)]
    /\ failures' = failures + 1
    /\ UNCHANGED <<clock, timezone, ret, cronTz, running, lastStart, lastEnd, settings,
                   startFired, endFired, notified, crashed, changes, skips>>

StopNothing(jobs, id) == jobs

\* this._earthHourCron.stop(): the job the field holds, the one created last.
StopExisting(jobs, id) == {j \in jobs : j.id # id}

\* The timezoneChange handler: _setupCronJobs stops the job, clears both
\* years and starts a job in the new zone.  Ticks already running go on with
\* the zone they were created with.
TimezoneChange ==
    /\ ~crashed
    /\ MayDisturb
    /\ \E z \in AppZones \ {timezone} :
        /\ timezone' = z
        /\ cronTz' = z
        /\ running' = StopExisting(running, changes) \cup {[id |-> changes + 1, tz |-> z]}
    /\ lastStart' = 0
    /\ lastEnd' = 0
    /\ changes' = changes + 1
    /\ UNCHANGED <<clock, ret, settings, ticks, startFired, endFired, notified,
                   failures, crashed, skips>>

\* Minutes on which the job's tick finds nothing to do pass: the clock moves
\* to two minutes before the next instant a running job acts on.
SkipTo ==
    /\ ~crashed
    /\ AllIdle
    /\ \E r \in running : \E e \in EventTable[r.tz] :
        /\ e - 2 * Minute > clock
        /\ \A j \in running : \A f \in EventTable[j.tz] :
               ~(clock < f + Minute /\ f - Minute <= e - 2 * Minute)
        /\ clock' = e - 2 * Minute
    /\ UNCHANGED <<timezone, ret, cronTz, running, lastStart, lastEnd, settings, ticks, startFired,
                   endFired, notified, failures, crashed, changes>>

\* At most MaxSkips such stretches are followed.
Skip ==
    /\ SkipTo
    /\ skips < MaxSkips
    /\ skips' = skips + 1

\* onInit has run, two minutes before one of the instants its job acts on.
Init ==
    /\ timezone \in AppZones
    /\ clock \in {e - 2 * Minute : e \in EventTable[timezone]}
    /\ ret = NoRet
    /\ AppInit

Next ==
    \/ CronTickFails
    \/ CronTickStart
    \/ CronTickEnd
    \/ CronTickNotify
    \/ StartTriggerResolves
    \/ StartTriggerRejects
    \/ EndTriggerResolves
    \/ EndTriggerRejects
    \/ CreateNotificationResolves
    \/ CreateNotificationRejects
    \/ SettingsSetResolves
    \/ SettingsSetRejects
    \/ TimezoneChange
    \/ Skip

Spec == Init /\ [][Next]_vars

\* ------------------------------- the job ticking every minute, no call failing
\* The app runs from before this year's start, fresh or with the years of
\* last year's run stored, and the timezone stays.
InitLive ==
    /\ timezone \in AppZones
    /\ clock \in {e - 2 * Minute : e \in EventTable[timezone]}
    /\ clock < GetEarthHourDate(FirstYear, timezone, clock) - Minute
    /\ ret = NoRet
    /\ cronTz = timezone
    /\ running = {[id |-> 0, tz |-> timezone]}
    /\ \E prev \in {0, FirstYear - 1} :
        /\ lastStart = prev
        /\ lastEnd = prev
        /\ settings = [k \in Kinds |-> prev]
    /\ ticks = [i \in Slots |-> IdleTick]
    /\ startFired = [y \in AppYears |-> 0]
    /\ endFired = [y \in AppYears |-> 0]
    /\ notified = [k \in Kinds |-> [y \in AppYears |-> 0]]
    /\ failures = 0
    /\ crashed = FALSE
    /\ changes = 0
    /\ skips = 0

TickNotifies == CronTickNotify /\ failures' = failures

StartTriggerDone == StartTriggerResolves /\ failures' = failures

EndTriggerDone == EndTriggerResolves /\ failures' = failures

IdleMinutesPass == SkipTo /\ UNCHANGED skips

NextLive ==
    \/ CronTickStart
    \/ CronTickEnd
    \/ TickNotifies
    \/ StartTriggerDone
    \/ EndTriggerDone
    \/ CreateNotificationResolves
    \/ SettingsSetResolves
    \/ IdleMinutesPass

\* A tick of the job: what each branch of onTick does to the clock.
CronFires ==
    \E j \in running, lat \in Latencies :
        /\ TickGuard(j.tz)
        /\ \E i \in Slots : FirstIdle(i)
        /\ clock' = NextMinute(clock) + lat

\* What a tick can be at once an awaited call of it has settled: finished, at
\* the next await of onTick, or at a sender of runScheduledNotifications.
AfterSettle(t, nowMs) ==
    {IdleTick}
    \cup {[t EXCEPT !.pc = p, !.k = k] : p \in {"end", "create", "set"}, k \in Kinds \cup {t.k}}
    \cup {[IdleTick EXCEPT !.pc = "create", !.tz = t.tz, !.nowMs = nowMs, !.useYear = y, !.k = k] :
              y \in AppYears, k \in Kinds}

\* An awaited call of a running tick settles.
AwaitSettles ==
    \E i \in Slots :
        /\ ticks[i].pc # "idle"
        /\ \E t \in AfterSettle(ticks[i], clock) : ticks' = [ticks EXCEPT ![i] = t]

\* The job ticks every minute and every awaited call settles.  The steps of
\* NextLive that move the clock to the next minute are the ticks, and those
\* that move a running tick on are the calls settling.
LiveFairness ==
    /\ WF_clock(CronFires)
    /\ WF_vars(IdleMinutesPass)
    /\ WF_ticks(AwaitSettles)

SpecLive == InitLive /\ [][NextLive]_vars /\ LiveFairness

\* ------------------------------------ createNotification as the only call failing
NextSender ==
    \/ CronTickStart
    \/ CronTickEnd
    \/ TickNotifies
    \/ StartTriggerDone
    \/ EndTriggerDone
    \/ CreateNotificationResolves
    \/ CreateNotificationRejects
    \/ SettingsSetResolves
    \/ IdleMinutesPass

SpecSender == InitLive /\ [][NextSender]_vars


\* ----------------------------------------------------------------- properties
\* Where the clock stands relative to this calendar year's occurrence, read
\* off the wall clock of the zone: the last Saturday of March, 20:30 - 21:30.
NowLocal == ToLocal(clock, timezone)

NowTimeOfDay == NowLocal.hour * Hour + NowLocal.minute * Minute + NowLocal.sub

NowDayRank == NowLocal.month * 100 + NowLocal.day

EventDayRank == 300 + RefLastSaturday(NowLocal.year)

BeforeStart ==
    \/ NowDayRank < EventDayRank
    \/ NowDayRank = EventDayRank /\ NowTimeOfDay < 20 * Hour + 30 * Minute

AtOrAfterEnd ==
    \/ NowDayRank > EventDayRank
    \/ NowDayRank = EventDayRank /\ NowTimeOfDay >= 21 * Hour + 30 * Minute

InWindow == ~BeforeStart /\ ~AtOrAfterEnd

\* C1: getEarthHourDate(Y, Z) is 20:30:00.000 local time on the last
\* Saturday of March of year Y: a Saturday, dated March 25..31 of Y, 0..6
\* days before March 31; 2024 gives Mar 30, 2025 Mar 29, 2026 Mar 28.
C1_LastSaturdayOfMarch ==
    ret.fn = "getEarthHourDate" =>
        LET f == ToLocal(ret.val, timezone)
        IN  /\ f.weekday = 6
            /\ f.year = ret.year /\ f.month = 3 /\ f.day \in 25 .. 31
            /\ f.hour = 20 /\ f.minute = 30 /\ f.sub = 0
            /\ DaysToSubtract(WeekdayOfDays(DaysFromCivil(ret.year, 3, 31))) = 31 - f.day
            /\ (ret.year = 2024 => f.day = 30)
            /\ (ret.year = 2025 => f.day = 29)
            /\ (ret.year = 2026 => f.day = 28)

\* March 31 is itself the Saturday: nothing is subtracted.
C1_Witness ==
    /\ ret.fn = "getEarthHourDate"
    /\ ToLocal(ret.val, timezone).day = 31
    /\ ToLocal(ret.val, timezone).weekday = 6

\* C2: isCurrentlyEarthHour is true exactly on [start, end) of this calendar
\* year's occurrence: false one minute before start, true at start and at
\* start + 59 minutes, false at end and everywhere else.
C2_HalfOpenWindow ==
    ret.fn = "isCurrentlyEarthHour" => (ret.flag <=> InWindow)

\* The call is made at exactly 20:30:00 on the event day and answers true.
C2_Witness ==
    /\ ret.fn = "isCurrentlyEarthHour"
    /\ ret.flag
    /\ NowDayRank = EventDayRank
    /\ NowTimeOfDay = 20 * Hour + 30 * Minute

\* The date a countdown is measured against is the last Saturday of March
\* of year y, at h:30 local time.
IsOccurrenceOf(ts, y, h) ==
    LET f == ToLocal(ts, timezone)
    IN  /\ f.year = y /\ f.month = 3 /\ f.day = RefLastSaturday(y)
        /\ f.hour = h /\ f.minute = 30 /\ f.sub = 0

\* C3: both countdown functions measure against this calendar year's
\* occurrence while now is strictly before its end, and against next year's
\* from the end on; the roll-forward is at end, never at start.
C3_RollForwardAtEnd ==
    LET y == IF AtOrAfterEnd THEN NowLocal.year + 1 ELSE NowLocal.year
    IN  /\ ret.fn = "getMinutesUntilEarthHourStart" => IsOccurrenceOf(ret.target, y, 20)
        /\ ret.fn = "getMinutesUntilEarthHourEnd" => IsOccurrenceOf(ret.target, y, 21)

\* Inside the window, after the start, the countdown to start still uses
\* this year's start.
C3_Witness ==
    /\ ret.fn = "getMinutesUntilEarthHourStart"
    /\ InWindow
    /\ ret.target < clock
    /\ ToLocal(ret.target, timezone).year = NowLocal.year

C6_UpcomingRollsAtStart ==
    LET y == IF BeforeStart THEN NowLocal.year ELSE NowLocal.year + 1
    IN  /\ ret.fn = "getUpcomingEarthHourStart" =>
            (IsOccurrenceOf(ret.val, y, 20) /\ ret.val > clock)
        /\ ret.fn = "getUpcomingEarthHourEnd" =>
            (IsOccurrenceOf(ret.val, y, 21) /\ IsOccurrenceOf(ret.val - Hour, y, 20))

\* Asked at exactly this year's start, the upcoming start is next year's.
C6_Witness ==
    /\ ret.fn = "getUpcomingEarthHourStart"
    /\ NowDayRank = EventDayRank
    /\ NowTimeOfDay = 20 * Hour + 30 * Minute
    /\ ToLocal(ret.val, timezone).year = NowLocal.year + 1

\* C10: getEarthHourEnd(Y, Z) is getEarthHourDate(Y, Z) plus one hour:
\* strictly later, exactly 60 minutes later, and 21:30 local time on the
\* civil date of the start.
C10_EndIsStartPlusOneHour ==
    ret.fn = "getEarthHourEnd" =>
        LET start == GetEarthHourDate(ret.year, timezone, clock)
            f == ToLocal(ret.val, timezone)
            g == ToLocal(start, timezone)
        IN  /\ ret.val > start
            /\ ret.val - start = 60 * Minute
            /\ f.hour = 21 /\ f.minute = 30 /\ f.sub = 0
            /\ f.year = g.year /\ f.month = g.month /\ f.day = g.day
            /\ f.year = ret.year /\ f.day = RefLastSaturday(ret.year)

\* The end of the 2025 occurrence: March 29, 21:30.
C10_Witness ==
    /\ ret.fn = "getEarthHourEnd"
    /\ ret.year = 2025
    /\ ToLocal(ret.val, timezone).day = 29
    /\ ToLocal(ret.val, timezone).hour = 21


\* C7: across the ticks of the cron job, overlapping ticks and failing calls of
\* createNotification and settings.set included, each reminder kind creates
\* at most one notification for each year it is sent for.
C7_AtMostOncePerKindAndYear ==
    \A k \in Kinds : \A y \in AppYears : notified[k][y] <= 1

\* C8: across cron ticks and timezoneChange events, the earth_hour_starts
\* trigger fires at most once in a calendar year and so does the
\* earth_hour_ends trigger.
C8_AtMostOncePerCalendarYear ==
    \A y \in AppYears : startFired[y] <= 1 /\ endFired[y] <= 1

\* C9: a call that fails in a tick (the first computations, a trigger, the
\* scheduled notifications or a sender's call) is caught in that tick: no
\* error escapes, and the cron job stays the one that was running, so later
\* ticks run.
C9_FailureIsCaught ==
    [][failures' > failures => (~crashed' /\ cronTz' = cronTz /\ running' = running)]_vars

\* A tick that began after a failure was caught has called the start trigger.
C9_Witness ==
    \E i \in Slots : ticks[i].pc = "start" /\ ticks[i].after /\ ~crashed

\* C11: isEarthHourDay is true exactly when the civil date of now in the zone
\* is the last Saturday of March of now's year, at every time of that day,
\* and false on every other day.
C11_EarthHourDay ==
    ret.fn = "isEarthHourDay" => (ret.flag <=> NowDayRank = EventDayRank)

\* At 00:00 of the event day the check is already true.
C11_Witness ==
    ret.fn = "isEarthHourDay" /\ ret.flag /\ NowTimeOfDay = 0

\* C12: at one now, minutes until the end minus minutes until the start is
\* 60: both are measured against the same year's occurrence, before, during
\* and after the window.
C12_EndMinusStartIsSixty ==
    ret.fn = "bothCountdowns" => ret.val2 - ret.val = 60

\* Inside the window: the start is behind, the end ahead.
C12_Witness ==
    ret.fn = "bothCountdowns" /\ InWindow /\ ret.val < 0 /\ ret.val2 > 0

\* C13: the year runScheduledNotifications keeps the reminders under is the
\* current year while now is strictly before this year's start and the
\* current year + 1 from the start instant on (not from the end); it is the
\* same whether the current year is read in the process's zone or in the
\* timezone.
C13_ReminderYearRollsAtStart ==
    ret.fn = "reminderYear" =>
        /\ ret.val = IF clock < RefStart(ret.year, timezone) THEN ret.year ELSE ret.year + 1
        /\ ret.val = IF BeforeStart THEN NowLocal.year ELSE NowLocal.year + 1

\* Inside the window the year is already next year's.
C13_Witness ==
    ret.fn = "reminderYear" /\ InWindow /\ ret.val = NowLocal.year + 1

\* The local fields of ts are hour h, minute mi sharp on the civil date dn
\* days after 1970-01-01.
IsLocalTimeOn(ts, dn, h, mi) ==
    LET f == ToLocal(ts, timezone)
    IN  /\ DaysFromCivil(f.year, f.month, f.day) = dn
        /\ f.hour = h /\ f.minute = mi /\ f.sub = 0

RefEventDay(y) == DaysFromCivil(y, 3, RefLastSaturday(y))

\* C14: the reminder instants of year Y are 20:30 local on the event's
\* day-of-month in February, clamped to February's length (one month), 20:30
\* on the Saturday 7 days earlier (one week), 20:30 on the Friday before (one
\* day) and 20:00 on the event date, which is the start minus 30 minutes.
C14_ReminderInstants ==
    /\ ret.fn = "getOneMonthBeforeEarthHour" =>
           IsLocalTimeOn(ret.val,
                         DaysFromCivil(ret.year, 2,
                                       Min(RefLastSaturday(ret.year), DaysInMonth(ret.year, 2))),
                         20, 30)
    /\ ret.fn = "getOneWeekBeforeEarthHour" =>
           /\ IsLocalTimeOn(ret.val, RefEventDay(ret.year) - 7, 20, 30)
           /\ WeekdayOfDays(RefEventDay(ret.year) - 7) = 6
    /\ ret.fn = "getOneDayBeforeEarthHour" =>
           /\ IsLocalTimeOn(ret.val, RefEventDay(ret.year) - 1, 20, 30)
           /\ WeekdayOfDays(RefEventDay(ret.year) - 1) = 5
    /\ ret.fn = "getThirtyMinutesBeforeEarthHour" =>
           /\ IsLocalTimeOn(ret.val, RefEventDay(ret.year), 20, 0)
           /\ ret.val = RefStart(ret.year, timezone) - 30 * Minute

\* A year whose event falls on a day-of-month February does not have: the
\* one-month reminder is on February's last day.
C14_Witness ==
    /\ ret.fn = "getOneMonthBeforeEarthHour"
    /\ RefLastSaturday(ret.year) > DaysInMonth(ret.year, 2)
    /\ ToLocal(ret.val, timezone).month = 2
    /\ ToLocal(ret.val, timezone).day = DaysInMonth(ret.year, 2)

\* x units in whole minutes, an exact half rounded away from zero.
RefHalfAway(x) ==
    IF x >= 0 THEN (x + HalfMinute) \div Minute ELSE 0 - ((HalfMinute - x) \div Minute)

\* x units in whole minutes, an exact half rounded to the even neighbour.
RefHalfEven(x) ==
    LET q == x \div Minute
        r == x - q * Minute
    IN  IF r < HalfMinute THEN q
        ELSE IF r > HalfMinute THEN q + 1
        ELSE IF q % 2 = 0 THEN q ELSE q + 1

IsCountdown == ret.fn \in {"getMinutesUntilEarthHourStart", "getMinutesUntilEarthHourEnd"}

\* C15 as stated: the countdown is (target - now) in minutes rounded to the
\* nearest whole minute, an exact half going away from zero or to the even
\* neighbour, for positive and negative differences alike.
C15_AsStated ==
    IsCountdown =>
        \/ ret.val = RefHalfAway(ret.target - clock)
        \/ ret.val = RefHalfEven(ret.target - clock)

\* C15 (amended): the countdown is (target - now) in minutes rounded to the
\* nearest whole minute, an exact half going up (towards plus infinity):
\* 0.5 gives 1, -0.5 gives 0, -1.5 gives -1.
C15_RoundsHalfUp ==
    IsCountdown =>
        /\ (2 * ret.val - 1) * Minute <= 2 * (ret.target - clock)
        /\ 2 * (ret.target - clock) < (2 * ret.val + 1) * Minute

\* A negative difference of a whole number of minutes and a half, 1.5 or
\* more, rounded up.
C15_Witness ==
    /\ IsCountdown
    /\ ret.target - clock < 0 - Minute
    /\ (ret.target - clock) % Minute = HalfMinute
    /\ ret.val * Minute > ret.target - clock

\* C16: the "Earth Hour starts in" condition is true exactly when
\* 0 <= getMinutesUntilEarthHourStart <= target, target being amount * 60 for
\* unit 'hours' and amount otherwise; so it is false inside the window from
\* one minute after the start on, and after the end it is true only when next
\* year's start is within the target.
C16_StartsInCondition ==
    ret.fn = "earth_hour_starts_in" =>
        /\ ret.flag <=>
               /\ 0 <= ret.val
               /\ ret.val <= (IF ret.unit = "hours" THEN ret.amount * 60 ELSE ret.amount)
        /\ (InWindow /\ clock >= RefStart(NowLocal.year, timezone) + Minute) => ~ret.flag
        /\ (AtOrAfterEnd /\ ret.flag) =>
               RefStart(NowLocal.year + 1, timezone) - clock
                   < (IF ret.unit = "hours" THEN ret.amount * 60 ELSE ret.amount) * Minute
                     + HalfMinute

\* Asked in hours, the condition is true with more minutes to go than the
\* amount.
C16_Witness ==
    /\ ret.fn = "earth_hour_starts_in"
    /\ ret.flag
    /\ ret.unit = "hours"
    /\ ret.val > ret.amount

\* C17: after onInit and any timezoneChange events exactly one cron job is
\* running, the one created last, in the current timezone (the job before it
\* was stopped), and a tick that begins comes from that job and uses the
\* current timezone.
C17_AtMostOneCronJob ==
    /\ [](running = {[id |-> changes, tz |-> timezone]})
    /\ [][\A i \in Slots :
              (ticks[i].pc = "idle" /\ ticks'[i].pc # "idle") =>
                  /\ ticks'[i].tz = timezone'
                  /\ ticks'[i].pc \in {"start", "end"} => ticks'[i].job = changes']_vars

\* A tick of a job that a timezoneChange created has called the start
\* trigger, and no other job is running.
C17_Witness ==
    /\ Cardinality(running) = 1
    /\ \E i \in Slots : ticks[i].pc = "start" /\ ticks[i].job > 0 /\ ticks[i].tz = timezone

\* C18: when the clock advances between the three reads of
\* isCurrentlyEarthHour (midnight of December 31 included), the answer is
\* true only if the first-read now lies in [start, end) of one year's
\* occurrence.
C18_TrueOnlyInsideOneWindow ==
    (ret.fn = "isCurrentlyEarthHour: clock advances" /\ ret.flag) =>
        \E y \in TableYears :
            /\ RefStart(y, timezone) <= ret.target
            /\ ret.target < RefStart(y, timezone) + Hour

\* C19: whenever a tick calls the earth_hour_starts trigger, the tick's now
\* is at or after the start of its year's occurrence (20:30 local on the
\* event day), so isCurrentlyEarthHour at that instant is true.
C19_StartTriggerNotBeforeStart ==
    \A i \in Slots :
        ticks[i].pc = "start" =>
            /\ ticks[i].now >= RefStart(ticks[i].year, ticks[i].tz)
            /\ IsCurrentlyEarthHour(ticks[i].tz, ticks[i].now, ticks[i].now, ticks[i].now)

\* A tick within one minute of instant t has called the trigger of phase pc
\* for year y.
CalledNear(pc, y, t) ==
    \E i \in Slots :
        ticks[i].pc = pc /\ ticks[i].year = y /\ Abs(ticks[i].now - t) <= Minute

StartWasCalled(y) ==
    startFired[y] >= 1 \/ \E i \in Slots : ticks[i].pc = "start" /\ ticks[i].year = y

EndWasCalled(y) ==
    endFired[y] >= 1 \/ \E i \in Slots : ticks[i].pc = "end" /\ ticks[i].year = y

\* C20: with the job ticking every minute and no call failing, the start
\* trigger of the year is eventually called by a tick within one minute of
\* the start, the end trigger by a tick within one minute of the end, and
\* the end trigger is never called before the start trigger.
C20_TriggersEventuallyFire ==
    /\ <>CalledNear("start", FirstYear, RefStart(FirstYear, timezone))
    /\ <>CalledNear("end", FirstYear, RefStart(FirstYear, timezone) + Hour)
    /\ [](EndWasCalled(FirstYear) => StartWasCalled(FirstYear))

\* Both triggers of the year have fired, with last year's run behind.
C20_Witness ==
    /\ startFired[FirstYear] = 1
    /\ endFired[FirstYear] = 1
    /\ settings[1] = FirstYear - 1

\* The instant of reminder kind k of year y in zone z, read off the calendar.
RefReminder(k, y, z) ==
    CASE k = 1 -> RefInstant(ObjToLocalTS(y, 2, Min(RefLastSaturday(y), DaysInMonth(y, 2)),
                                          20, 30, 0), z)
      [] k = 2 -> RefInstant(ObjToLocalTS(y, 3, RefLastSaturday(y) - 7, 20, 30, 0), z)
      [] k = 3 -> RefInstant(ObjToLocalTS(y, 3, RefLastSaturday(y) - 1, 20, 30, 0), z)
      [] OTHER -> RefInstant(ObjToLocalTS(y, 3, RefLastSaturday(y), 20, 0, 0), z)

\* Those instants and the starts, for the zones and years the app is followed in.
RefReminderTable ==
    [z \in AppZones |-> [y \in AppYears |-> [k \in Kinds |-> RefReminder(k, y, z)]]]

RefStartTable == [z \in AppZones |-> [y \in AppYears |-> RefStart(y, z)]]

\* The year the reminders of a tick at instant n are for.
RefUseYear(n, z) ==
    IF n >= RefStartTable[z][GetFullYear(n)] THEN GetFullYear(n) + 1 ELSE GetFullYear(n)

\* Sender k has something to send at instant n: n is within a minute of its
\* instant and the stored year is not y.
RefDue(k, n, y, z, st) == Abs(n - RefReminderTable[z][y][k]) <= Minute /\ st[k] # y

\* Tick record t is where senders from .. 4, run in order at instant n for
\* year y, leave a tick: at the createNotification of the first one that has
\* something to send, or finished.
RefLeftBySenders(t, from, n, y, z, st) ==
    /\ \A k \in from .. 4 :
           (RefDue(k, n, y, z, st) /\ \A j \in from .. (k - 1) : ~RefDue(j, n, y, z, st)) =>
               /\ t.pc = "create" /\ t.k = k
               /\ t.nowMs = n /\ t.useYear = y /\ t.tz = z
    /\ (\A k \in from .. 4 : ~RefDue(k, n, y, z, st)) => t = IdleTick

\* C21: when createNotification fails in the sender of one kind, nothing
\* escapes the sender (the app goes on), the stored years and the count of
\* notifications stay as they were, and the tick goes on through the remaining
\* senders in order; and since a tick that enters runScheduledNotifications
\* within a minute of a kind's instant with that kind's year not stored reaches
\* its createNotification, the next tick inside the window attempts it again.
C21_FailedSenderKeepsMarker ==
    /\ [][(/\ failures' > failures
           /\ clock' = clock
           /\ \E j \in Slots : ticks[j].pc = "create"
           /\ \A j \in Slots : ticks[j].pc # "create" => ticks'[j] = ticks[j]) =>
              /\ ~crashed'
              /\ settings' = settings
              /\ notified' = notified
              /\ \E i \in Slots :
                  /\ ticks[i].pc = "create"
                  /\ RefLeftBySenders(ticks'[i], ticks[i].k + 1, ticks[i].nowMs,
                                      ticks[i].useYear, ticks[i].tz, settings)
                  /\ \A j \in Slots \ {i} : ticks'[j] = ticks[j]]_vars
    /\ [][\A i \in Slots :
              (/\ failures' = failures
               /\ ticks'[i].pc \notin {"start", "end"}
               /\ \/ ticks[i].pc = "idle" /\ clock' # clock /\ FirstIdle(i)
                  \/ ticks[i].pc \in {"start", "end"}) =>
                  RefLeftBySenders(ticks'[i], 1, clock',
                                   RefUseYear(clock', IF ticks[i].pc = "idle" THEN timezone
                                                      ELSE ticks[i].tz),
                                   IF ticks[i].pc = "idle" THEN timezone ELSE ticks[i].tz,
                                   settings)]_vars

\* The first tick inside the window of a kind has ended with its
\* createNotification failing, and a later tick inside the window is at the
\* createNotification of the same kind, the year still not stored.
C21_Witness ==
    \E i \in Slots :
        /\ ticks[i].pc = "create"
        /\ failures = 1
        /\ ticks[i].nowMs >= RefReminderTable[ticks[i].tz][ticks[i].useYear][ticks[i].k]
        /\ notified[ticks[i].k][ticks[i].useYear] = 0
        /\ settings[ticks[i].k] # ticks[i].useYear
        /\ \A j \in Slots \ {i} : ticks[j].pc = "idle"

====
